---------------------------- MODULE Spec2Model ----------------------------
(***************************************************************************)
(* A model of chunkdoc: the three chunking strategies of chunker.py, the  *)
(* Chunker dispatcher, the strategy factory, and the run of cli.main that *)
(* drives them.                                                            *)
(*                                                                         *)
(* A Python str is a sequence of one-character strings; a list or a tuple *)
(* is a sequence; None is the string "None".  A chunk is the pair          *)
(* <<chunk_text, size>> the code appends to its result list.               *)
(***************************************************************************)
EXTENDS Integers, Sequences, FiniteSets, TLC

VARIABLES
    pc,                  \* position of the running call
    caller,              \* "api": the core called directly; "main": a run of cli.main
    strategy_name,       \* get_chunking_strategy's first argument
    encoder,             \* get_chunking_strategy's second argument
    strategy,            \* Chunker.strategy: the class of the instance, None before
    text,                \* chunk's text argument
    chunk_size,          \* chunk's chunk_size argument (the target size)
    units,               \* the local tokens / lines / paragraphs
    idx,                 \* position of the for loop in units
    chunks,              \* the local chunks
    current_chunk,       \* the local current_chunk
    current_chunk_size,  \* the local current_chunk_size
    chunk_units,         \* history: the current_chunk every appended chunk was made of
    result,              \* <<the list chunk returned>>, <<>> before it returns
    err,                 \* the exception raised, None when none
    args,                \* main: the parsed command line
    config_model,        \* main: Config.get("model")
    output,              \* main: <<the chunks written>>, <<>> before the write
    exit_status,         \* main: the process's exit status, None while running
    instances,           \* concurrent calls: the strategy instances, by id
    chunkers,            \* concurrent calls: the Chunker objects, by id
    calls,               \* concurrent calls: the arguments of each call
    frames               \* concurrent calls: the local variables of each call

vars == <<pc, caller, strategy_name, encoder, strategy, text, chunk_size, units,
          idx, chunks, current_chunk, current_chunk_size, chunk_units, result,
          err, args, config_model, output, exit_status,
          instances, chunkers, calls, frames>>

\* the state of one call run by itself, and the state of concurrent calls
seq_vars == <<pc, caller, strategy_name, encoder, strategy, text, chunk_size,
              units, idx, chunks, current_chunk, current_chunk_size,
              chunk_units, result, err, args, config_model, output,
              exit_status>>
conc_vars == <<instances, chunkers, calls, frames>>

None == "None"

-----------------------------------------------------------------------------
(* Bounds of the explored inputs *)

\* longest enumerated input text
MaxLen == 6
\* largest target size
MaxTarget == 4
\* target sizes go down to -MaxNeg
MaxNeg == 2
\* longest enumerated input text of a run of main
MaxMainLen == 3

-----------------------------------------------------------------------------
(* str methods *)

\* str.split() separates on runs of these
Whitespace == {" ", "\t", "\n", "\r", "\f"}

\* str.splitlines() breaks a line after each of these ("\r\n" counts once)
LineBreaks == {"\n", "\r", "\f"}

RECURSIVE SplitFrom(_, _, _)
SplitFrom(s, i, word) ==
    IF i > Len(s)
    THEN IF word = <<>> THEN <<>> ELSE <<word>>
    ELSE IF s[i] \in Whitespace
         THEN (IF word = <<>> THEN <<>> ELSE <<word>>) \o SplitFrom(s, i + 1, <<>>)
         ELSE SplitFrom(s, i + 1, Append(word, s[i]))

\* s.split(): the whitespace-separated words of s
Split(s) == SplitFrom(s, 1, <<>>)

RECURSIVE SplitLinesFrom(_, _, _)
SplitLinesFrom(s, i, line) ==
    IF i > Len(s)
    THEN IF line = <<>> THEN <<>> ELSE <<line>>
    ELSE IF s[i] = "\r" /\ i < Len(s) /\ s[i + 1] = "\n"
         THEN <<line>> \o SplitLinesFrom(s, i + 2, <<>>)
         ELSE IF s[i] \in LineBreaks
              THEN <<line>> \o SplitLinesFrom(s, i + 1, <<>>)
              ELSE SplitLinesFrom(s, i + 1, Append(line, s[i]))

\* s.splitlines(): the lines of s, without their line breaks
SplitLines(s) == SplitLinesFrom(s, 1, <<>>)

RECURSIVE SplitSepFrom(_, _, _, _)
SplitSepFrom(s, sep, i, piece) ==
    IF i > Len(s)
    THEN <<piece>>
    ELSE IF i + Len(sep) - 1 <= Len(s) /\ SubSeq(s, i, i + Len(sep) - 1) = sep
         THEN <<piece>> \o SplitSepFrom(s, sep, i + Len(sep), <<>>)
         ELSE SplitSepFrom(s, sep, i + 1, Append(piece, s[i]))

\* s.split(sep) for a non-empty sep
SplitSep(s, sep) == SplitSepFrom(s, sep, 1, <<>>)

RECURSIVE Join(_, _)
\* sep.join(parts)
Join(sep, parts) ==
    IF parts = <<>> THEN <<>>
    ELSE IF Len(parts) = 1 THEN parts[1]
    ELSE parts[1] \o sep \o Join(sep, Tail(parts))

-----------------------------------------------------------------------------
(* The tokenizer adapter: the two operations chunker.py uses of the encoder *)

\* the encoder's vocabulary: token code k stands for the character Vocab[k]
Vocab ==
    <<" ", "e", "t", "a", "\n", "o", "n", "i", "s", "h", "\t", "l", "d", "\r",
      "c", "m", "p", "g", "b", "f", "z", "\f">>

TokenOf(c) == CHOOSE k \in 1..Len(Vocab) : Vocab[k] = c

\* encoder.encode(text): the token codes of text
encode(s) == [i \in 1..Len(s) |-> TokenOf(s[i])]

\* encoder.decode(tokens): the text of the token codes
decode(tokens) == [i \in 1..Len(tokens) |-> Vocab[tokens[i]]]

-----------------------------------------------------------------------------
(* Inputs *)

\* the characters of the enumerated texts: a word character, a space, a newline
Alphabet == {"a", " ", "\n"}

SeqsUpTo(S, n) == UNION {[1..k -> S] : k \in 0..n}

\* "a b c\nd\ne f g h"
LineCase ==
    <<"a", " ", "b", " ", "c", "\n", "d", "\n", "e", " ", "f", " ",
      "g", " ", "h">>

\* "alpha beta\n\ngamma\n\ndelta epsilon zeta"
ParagraphCase ==
    <<"a", "l", "p", "h", "a", " ", "b", "e", "t", "a", "\n", "\n",
      "g", "a", "m", "m", "a", "\n", "\n", "d", "e", "l", "t", "a",
      " ", "e", "p", "s", "i", "l", "o", "n", " ", "z", "e", "t",
      "a">>

\* "hello": five tokens
TokenCase == <<"h", "e", "l", "l", "o">>

\* "a\tb\r\nc\n\nd": a tab, a CRLF line break and a blank line
MixedCase == <<"a", "\t", "b", "\r", "\n", "c", "\n", "\n", "d">>

ExtraTexts == {LineCase, ParagraphCase, TokenCase, MixedCase}

Texts == SeqsUpTo(Alphabet, MaxLen) \cup ExtraTexts

Sizes == (0 - MaxNeg)..MaxTarget

StrategyNames == {"token", "line", "paragraph", "unknown"}

\* the arguments of a direct call of the core, where cli.main's are not in play
NoArgs == [strategy |-> None, model |-> None, chunk_size |-> 0]

-----------------------------------------------------------------------------
(* chunker.py: the strategy factory *)

\* get_chunking_strategy without the check of the encoder
get_chunking_strategy_unchecked(name, enc) ==
    IF name = "token"
    THEN [raises |-> None, returns |-> "TokenBasedChunking"]
    ELSE IF name = "line"
         THEN [raises |-> None, returns |-> "LineBasedChunking"]
         ELSE IF name = "paragraph"
              THEN [raises |-> None, returns |-> "ParagraphBasedChunking"]
              ELSE [raises |-> "ValueError", returns |-> None]

\* get_chunking_strategy(strategy_name, encoder): the exception it raises
\* (None when it returns) and the class of the instance it returns
get_chunking_strategy(name, enc) ==
    IF name = "token"
    THEN IF enc = None
         THEN [raises |-> "ValueError", returns |-> None]
         ELSE [raises |-> None, returns |-> "TokenBasedChunking"]
    ELSE IF name = "line"
         THEN [raises |-> None, returns |-> "LineBasedChunking"]
         ELSE IF name = "paragraph"
              THEN [raises |-> None, returns |-> "ParagraphBasedChunking"]
              ELSE [raises |-> "ValueError", returns |-> None]

\* where an exception raised in the core lands: in main's except clause, or at
\* the direct caller
Raised == IF caller = "main" THEN "main_except" ELSE "raised"

\* where chunk_text's return lands
Returned == IF caller = "main" THEN "main_output" ELSE "returned"

\* the call of get_chunking_strategy and, when it returns, Chunker(strategy)
CallGetChunkingStrategy ==
    /\ pc = "get_chunking_strategy"
    /\ LET r == get_chunking_strategy(strategy_name, encoder)
       IN  IF r.raises # None
           THEN /\ err' = r.raises
                /\ pc' = Raised
                /\ UNCHANGED strategy
           ELSE /\ strategy' = r.returns
                /\ pc' = "chunk_text"
                /\ UNCHANGED err
    /\ UNCHANGED <<caller, strategy_name, encoder, text, chunk_size, units, idx,
                   chunks, current_chunk, current_chunk_size, chunk_units,
                   result, args, config_model, output, exit_status>>
    /\ UNCHANGED conc_vars

-----------------------------------------------------------------------------
(* chunker.py: the three strategies.  Chunker.chunk_text forwards to the     *)
(* strategy's chunk; each chunk is a prologue, a for loop and an epilogue.   *)

\* the locals every chunk sets up before its loop
EnterLoop(us) ==
    /\ units' = us
    /\ idx' = 1
    /\ chunks' = <<>>
    /\ current_chunk' = <<>>
    /\ current_chunk_size' = 0
    /\ chunk_units' = <<>>
    /\ pc' = "loop"
    /\ UNCHANGED <<caller, strategy_name, encoder, strategy, text, chunk_size,
                   result, err, args, config_model, output, exit_status>>
    /\ UNCHANGED conc_vars

\* one iteration of a for loop: the new chunks, current_chunk, current_chunk_size
Iterate(flush, chunk, unit, unit_size) ==
    /\ IF flush
       THEN /\ chunks' = Append(chunks, chunk)
            /\ chunk_units' = Append(chunk_units, current_chunk)
            /\ current_chunk' = <<unit>>
            /\ current_chunk_size' = unit_size
       ELSE /\ current_chunk' = Append(current_chunk, unit)
            /\ current_chunk_size' = current_chunk_size + unit_size
            /\ UNCHANGED <<chunks, chunk_units>>
    /\ idx' = idx + 1
    /\ UNCHANGED <<pc, caller, strategy_name, encoder, strategy, text, chunk_size,
                   units, result, err, args, config_model, output, exit_status>>
    /\ UNCHANGED conc_vars

\* the epilogue of a chunk: the last flush and the return
Epilogue(flush, chunk) ==
    /\ chunks' = IF flush THEN Append(chunks, chunk) ELSE chunks
    /\ chunk_units' = IF flush THEN Append(chunk_units, current_chunk)
                      ELSE chunk_units
    /\ result' = <<chunks'>>
    /\ pc' = Returned
    /\ UNCHANGED <<caller, strategy_name, encoder, strategy, text, chunk_size,
                   units, idx, current_chunk, current_chunk_size, err, args,
                   config_model, output, exit_status>>
    /\ UNCHANGED conc_vars

\* TokenFlush closing the chunk one token late
TokenFlushLate(size, target) == size > target

\* TokenBasedChunking.chunk: the condition that closes the current chunk
TokenFlush(size, target) == size >= target

\* TokenBasedChunking.chunk: the chunk appended for current_chunk
TokenChunk(cur) == <<decode(cur), Len(cur)>>

\* TokenLast with the last flush forgotten
TokenLastForgotten(cur) == FALSE

\* TokenBasedChunking.chunk: the condition of the last flush
TokenLast(cur) == cur # <<>>

TokenChunkBegin ==
    /\ pc = "chunk_text"
    /\ strategy = "TokenBasedChunking"
    /\ EnterLoop(encode(text))

TokenChunkStep ==
    /\ pc = "loop"
    /\ strategy = "TokenBasedChunking"
    /\ idx <= Len(units)
    /\ Iterate(TokenFlush(current_chunk_size, chunk_size),
               TokenChunk(current_chunk), units[idx], 1)

TokenChunkEnd ==
    /\ pc = "loop"
    /\ strategy = "TokenBasedChunking"
    /\ idx > Len(units)
    /\ Epilogue(TokenLast(current_chunk), TokenChunk(current_chunk))

\* WordCount counting characters instead of words
CharCount(unit) == Len(unit)

\* len(line.split()), len(paragraph.split()): the words of a unit
WordCount(unit) == Len(Split(unit))

\* LineFlush closing the chunk already when the coming line fills it exactly
LineFlushEager(size, line_size, target, cur) ==
    size + line_size >= target /\ cur # <<>>

\* LineFlush comparing the running total alone, without the coming line
LineFlushNoLookahead(size, line_size, target, cur) == size > target /\ cur # <<>>

\* LineBasedChunking.chunk: the condition that closes the current chunk
LineFlush(size, line_size, target, cur) == size + line_size > target /\ cur # <<>>

\* LineBasedChunking.chunk: the chunk appended for current_chunk
LineChunk(cur, size) == <<Join(<<" ">>, cur), size>>

\* LineBasedChunking.chunk: the condition of the last flush
LineLast(cur) == cur # <<>>

LineChunkBegin ==
    /\ pc = "chunk_text"
    /\ strategy = "LineBasedChunking"
    /\ EnterLoop(SplitLines(text))

LineChunkStep ==
    /\ pc = "loop"
    /\ strategy = "LineBasedChunking"
    /\ idx <= Len(units)
    /\ LET line == units[idx]
           line_size == WordCount(line)
       IN  Iterate(LineFlush(current_chunk_size, line_size, chunk_size,
                             current_chunk),
                   LineChunk(current_chunk, current_chunk_size), line, line_size)

LineChunkEnd ==
    /\ pc = "loop"
    /\ strategy = "LineBasedChunking"
    /\ idx > Len(units)
    /\ Epilogue(LineLast(current_chunk),
                LineChunk(current_chunk, current_chunk_size))

\* the separator and joiner of paragraphs, "\n\n"
BlankLine == <<"\n", "\n">>

\* ParagraphFlush comparing the running total alone, without the coming paragraph
ParagraphFlushNoLookahead(size, paragraph_size, target, cur) ==
    size > target /\ cur # <<>>

\* ParagraphBasedChunking.chunk: the condition that closes the current chunk
ParagraphFlush(size, paragraph_size, target, cur) ==
    size + paragraph_size > target /\ cur # <<>>

\* ParagraphChunk joining with one newline instead of the blank line
ParagraphChunkOneNewline(cur, size) == <<Join(<<"\n">>, cur), size>>

\* ParagraphBasedChunking.chunk: the chunk appended for current_chunk
ParagraphChunk(cur, size) == <<Join(BlankLine, cur), size>>

\* ParagraphBasedChunking.chunk: the condition of the last flush
ParagraphLast(cur) == cur # <<>>

ParagraphChunkBegin ==
    /\ pc = "chunk_text"
    /\ strategy = "ParagraphBasedChunking"
    /\ EnterLoop(SplitSep(text, BlankLine))

ParagraphChunkStep ==
    /\ pc = "loop"
    /\ strategy = "ParagraphBasedChunking"
    /\ idx <= Len(units)
    /\ LET paragraph == units[idx]
           paragraph_size == WordCount(paragraph)
       IN  Iterate(ParagraphFlush(current_chunk_size, paragraph_size,
                                  chunk_size, current_chunk),
                   ParagraphChunk(current_chunk, current_chunk_size),
                   paragraph, paragraph_size)

ParagraphChunkEnd ==
    /\ pc = "loop"
    /\ strategy = "ParagraphBasedChunking"
    /\ idx > Len(units)
    /\ Epilogue(ParagraphLast(current_chunk),
                ParagraphChunk(current_chunk, current_chunk_size))

\* the steps of one chunk call
Chunk ==
    \/ TokenChunkBegin \/ TokenChunkStep \/ TokenChunkEnd
    \/ LineChunkBegin \/ LineChunkStep \/ LineChunkEnd
    \/ ParagraphChunkBegin \/ ParagraphChunkStep \/ ParagraphChunkEnd

-----------------------------------------------------------------------------
(* A direct call of the core: get_chunking_strategy(strategy_name, encoder), *)
(* then Chunker(strategy).chunk_text(text, chunk_size)                        *)

Init ==
    /\ pc = "get_chunking_strategy"
    /\ caller = "api"
    /\ strategy_name \in StrategyNames
    /\ encoder \in {None, "Encoding"}
    /\ strategy = None
    /\ text \in Texts
    /\ chunk_size \in Sizes
    /\ units = <<>>
    /\ idx = 0
    /\ chunks = <<>>
    /\ current_chunk = <<>>
    /\ current_chunk_size = 0
    /\ chunk_units = <<>>
    /\ result = <<>>
    /\ err = None
    /\ args = NoArgs
    /\ config_model = None
    /\ output = <<>>
    /\ exit_status = None
    /\ instances = <<>>
    /\ chunkers = <<>>
    /\ calls = <<>>
    /\ frames = <<>>

Next == CallGetChunkingStrategy \/ Chunk

Spec == Init /\ [][Next]_vars

-----------------------------------------------------------------------------
(* cli.py: a run of main *)

\* the choices parse_arguments admits for --strategy and for --format
StrategyChoices == {"token", "line", "paragraph"}
FormatChoices == {"json", "csv", "xml", "line-xml"}

\* the model names tiktoken.encoding_for_model knows, of those explored
KnownModels == {"gpt-3.5-turbo"}

\* the command lines and environments explored
ArgStrategies == StrategyChoices \cup {"unknown"}
ArgModels == {"", "gpt-3.5-turbo", "no-such-model"}
ArgFormats == {"json", "yaml"}
ConfigModels == {"gpt-3.5-turbo", "no-such-model"}
MainTexts == SeqsUpTo(Alphabet, MaxMainLen) \cup ExtraTexts

\* Config.get_encoder(model): model or self.get("model")
ModelUsed(model, configured) == IF model # "" THEN model ELSE configured

\* parse_arguments(): argparse exits with status 2 on a value outside choices
MainParseArguments ==
    /\ pc = "parse_arguments"
    /\ IF args.strategy \in StrategyChoices /\ args.format \in FormatChoices
       THEN /\ pc' = "read_input"
            /\ UNCHANGED <<err, exit_status>>
       ELSE /\ err' = "SystemExit"
            /\ exit_status' = 2
            /\ pc' = "exit"
    /\ UNCHANGED <<caller, strategy_name, encoder, strategy, text, chunk_size,
                   units, idx, chunks, current_chunk, current_chunk_size,
                   chunk_units, result, args, config_model, output>>
    /\ UNCHANGED conc_vars

\* get_input_handler(args.input).read(): the text, or the handler's IOError
MainReadInput ==
    /\ pc = "read_input"
    /\ \/ \E t \in MainTexts :
             /\ text' = t
             /\ pc' = "get_encoder"
             /\ UNCHANGED err
       \/ /\ err' = "IOError"
          /\ pc' = "main_except"
          /\ UNCHANGED text
    /\ UNCHANGED <<caller, strategy_name, encoder, strategy, chunk_size, units,
                   idx, chunks, current_chunk, current_chunk_size, chunk_units,
                   result, args, config_model, output, exit_status>>
    /\ UNCHANGED conc_vars

\* encoder = config.get_encoder(args.model) if args.strategy == 'token' else None;
\* tiktoken.encoding_for_model raises KeyError for a model it does not know
MainGetEncoder ==
    /\ pc = "get_encoder"
    /\ IF args.strategy = "token"
          /\ ModelUsed(args.model, config_model) \notin KnownModels
       THEN /\ err' = "KeyError"
            /\ pc' = "main_except"
            /\ UNCHANGED <<encoder, strategy_name, chunk_size>>
       ELSE /\ encoder' = IF args.strategy = "token" THEN "Encoding" ELSE None
            /\ strategy_name' = args.strategy
            /\ chunk_size' = args.chunk_size
            /\ pc' = "get_chunking_strategy"
            /\ UNCHANGED err
    /\ UNCHANGED <<caller, strategy, text, units, idx, chunks, current_chunk,
                   current_chunk_size, chunk_units, result, args, config_model,
                   output, exit_status>>
    /\ UNCHANGED conc_vars

\* get_output_handler(args.format).write(chunks, args.output), then main returns;
\* or the write's OSError
MainWriteOutput ==
    /\ pc = "main_output"
    /\ \/ /\ output' = <<result[1]>>
          /\ exit_status' = 0
          /\ pc' = "exit"
          /\ UNCHANGED err
       \/ /\ err' = "OSError"
          /\ pc' = "main_except"
          /\ UNCHANGED <<output, exit_status>>
    /\ UNCHANGED <<caller, strategy_name, encoder, strategy, text, chunk_size,
                   units, idx, chunks, current_chunk, current_chunk_size,
                   chunk_units, result, args, config_model>>
    /\ UNCHANGED conc_vars

\* MainExcept printing the error without sys.exit(1): main returns, status 0
MainExceptNoExit ==
    /\ pc = "main_except"
    /\ exit_status' = 0
    /\ pc' = "exit"
    /\ UNCHANGED <<caller, strategy_name, encoder, strategy, text, chunk_size,
                   units, idx, chunks, current_chunk, current_chunk_size,
                   chunk_units, result, err, args, config_model, output>>
    /\ UNCHANGED conc_vars

\* except Exception: print the error, sys.exit(1)
MainExcept ==
    /\ pc = "main_except"
    /\ exit_status' = 1
    /\ pc' = "exit"
    /\ UNCHANGED <<caller, strategy_name, encoder, strategy, text, chunk_size,
                   units, idx, chunks, current_chunk, current_chunk_size,
                   chunk_units, result, err, args, config_model, output>>
    /\ UNCHANGED conc_vars

InitMain ==
    /\ pc = "parse_arguments"
    /\ caller = "main"
    /\ args \in [strategy : ArgStrategies, model : ArgModels,
                 chunk_size : Sizes, format : ArgFormats]
    /\ config_model \in ConfigModels
    /\ strategy_name = None
    /\ encoder = None
    /\ strategy = None
    /\ text = <<>>
    /\ chunk_size = 0
    /\ units = <<>>
    /\ idx = 0
    /\ chunks = <<>>
    /\ current_chunk = <<>>
    /\ current_chunk_size = 0
    /\ chunk_units = <<>>
    /\ result = <<>>
    /\ err = None
    /\ output = <<>>
    /\ exit_status = None
    /\ instances = <<>>
    /\ chunkers = <<>>
    /\ calls = <<>>
    /\ frames = <<>>

NextMain ==
    \/ MainParseArguments
    \/ MainReadInput
    \/ MainGetEncoder
    \/ CallGetChunkingStrategy
    \/ Chunk
    \/ MainWriteOutput
    \/ MainExcept

SpecMain == InitMain /\ [][NextMain]_vars

-----------------------------------------------------------------------------
(* chunker.py: chunk calls running concurrently.  The objects are the        *)
(* strategy instances and one Chunker around each; every call has the frame  *)
(* of local variables that Python gives it.                                   *)

\* number of calls in flight
NCalls == 2

Calls == 1..NCalls

\* the strategy instances: their class and their only attribute, self.encoder
StrategyInstances ==
    <<[class |-> "TokenBasedChunking", encoder |-> "Encoding"],
      [class |-> "LineBasedChunking", encoder |-> None],
      [class |-> "LineBasedChunking", encoder |-> None],
      [class |-> "ParagraphBasedChunking", encoder |-> None]>>

\* Chunker(strategy) around each instance: its only attribute, self.strategy
Chunkers == [k \in DOMAIN StrategyInstances |-> [strategy |-> k]]

\* "a a\na" and "a\n\na": the texts of the concurrent calls
ConcTexts == {<<"a", " ", "a", "\n", "a">>, <<"a", "\n", "\n", "a">>}

\* the target sizes of the concurrent calls
ConcSizes == {1, 2}

\* the strategy instance a call runs on: self of chunk, through
\* Chunker.chunk_text's self.strategy
SelfOf(c) == chunkers[calls[c].chunker].strategy

ClassOf(c) == instances[SelfOf(c)].class

\* the prologue of chunk for a class: the frame as the loop is entered
FrameEnter(class, txt) ==
    [pc |-> "loop",
     units |-> IF class = "TokenBasedChunking" THEN encode(txt)
               ELSE IF class = "LineBasedChunking" THEN SplitLines(txt)
               ELSE SplitSep(txt, BlankLine),
     idx |-> 1,
     chunks |-> <<>>,
     current_chunk |-> <<>>,
     current_chunk_size |-> 0,
     result |-> <<>>]

\* the chunk a class appends for the frame's current_chunk
FrameChunk(class, f) ==
    IF class = "TokenBasedChunking" THEN TokenChunk(f.current_chunk)
    ELSE IF class = "LineBasedChunking"
         THEN LineChunk(f.current_chunk, f.current_chunk_size)
         ELSE ParagraphChunk(f.current_chunk, f.current_chunk_size)

\* one iteration of the for loop of chunk for a class
FrameIterate(class, f, target) ==
    LET unit == f.units[f.idx]
        unit_size == IF class = "TokenBasedChunking" THEN 1 ELSE WordCount(unit)
        flush ==
            IF class = "TokenBasedChunking"
            THEN TokenFlush(f.current_chunk_size, target)
            ELSE IF class = "LineBasedChunking"
                 THEN LineFlush(f.current_chunk_size, unit_size, target,
                                f.current_chunk)
                 ELSE ParagraphFlush(f.current_chunk_size, unit_size, target,
                                     f.current_chunk)
    IN  IF flush
        THEN [f EXCEPT !.chunks = Append(@, FrameChunk(class, f)),
                       !.current_chunk = <<unit>>,
                       !.current_chunk_size = unit_size,
                       !.idx = @ + 1]
        ELSE [f EXCEPT !.current_chunk = Append(@, unit),
                       !.current_chunk_size = @ + unit_size,
                       !.idx = @ + 1]

\* the epilogue of chunk for a class: the last flush and the return
FrameReturn(class, f) ==
    LET last ==
            IF class = "TokenBasedChunking" THEN TokenLast(f.current_chunk)
            ELSE IF class = "LineBasedChunking" THEN LineLast(f.current_chunk)
            ELSE ParagraphLast(f.current_chunk)
        returned == IF last THEN Append(f.chunks, FrameChunk(class, f))
                    ELSE f.chunks
    IN  [f EXCEPT !.chunks = returned, !.result = <<returned>>,
                  !.pc = "returned"]

\* the frame of a call that has not begun
NoFrame ==
    [pc |-> "chunk_text", units |-> <<>>, idx |-> 0, chunks |-> <<>>,
     current_chunk |-> <<>>, current_chunk_size |-> 0, result |-> <<>>]

\* call c enters chunk_text and chunk's prologue
ConcChunkBegin(c) ==
    /\ frames[c].pc = "chunk_text"
    /\ frames' = [frames EXCEPT ![c] = FrameEnter(ClassOf(c), calls[c].text)]
    /\ UNCHANGED <<instances, chunkers, calls>>
    /\ UNCHANGED seq_vars

\* ConcChunkStep with the buffer kept on the instance (self.current_chunk,
\* self.current_chunk_size) instead of in the frame: every call on the same
\* instance sees the step
ConcChunkStepOnSelf(c) ==
    /\ frames[c].pc = "loop"
    /\ frames[c].idx <= Len(frames[c].units)
    /\ LET stepped == FrameIterate(ClassOf(c), frames[c], calls[c].chunk_size)
       IN  frames' =
               [d \in Calls |->
                   IF d = c THEN stepped
                   ELSE IF SelfOf(d) = SelfOf(c)
                        THEN [frames[d] EXCEPT
                                 !.current_chunk = stepped.current_chunk,
                                 !.current_chunk_size =
                                     stepped.current_chunk_size]
                        ELSE frames[d]]
    /\ UNCHANGED <<instances, chunkers, calls>>
    /\ UNCHANGED seq_vars

\* call c runs one iteration of its loop
ConcChunkStep(c) ==
    /\ frames[c].pc = "loop"
    /\ frames[c].idx <= Len(frames[c].units)
    /\ frames' = [frames EXCEPT
                     ![c] = FrameIterate(ClassOf(c), @, calls[c].chunk_size)]
    /\ UNCHANGED <<instances, chunkers, calls>>
    /\ UNCHANGED seq_vars

\* call c leaves its loop, flushes and returns
ConcChunkEnd(c) ==
    /\ frames[c].pc = "loop"
    /\ frames[c].idx > Len(frames[c].units)
    /\ frames' = [frames EXCEPT ![c] = FrameReturn(ClassOf(c), @)]
    /\ UNCHANGED <<instances, chunkers, calls>>
    /\ UNCHANGED seq_vars

InitConc ==
    /\ instances = StrategyInstances
    /\ chunkers = Chunkers
    /\ calls \in [Calls -> [chunker : DOMAIN Chunkers, text : ConcTexts,
                            chunk_size : ConcSizes]]
    /\ frames = [c \in Calls |-> NoFrame]
    /\ pc = "concurrent"
    /\ caller = "api"
    /\ strategy_name = None
    /\ encoder = None
    /\ strategy = None
    /\ text = <<>>
    /\ chunk_size = 0
    /\ units = <<>>
    /\ idx = 0
    /\ chunks = <<>>
    /\ current_chunk = <<>>
    /\ current_chunk_size = 0
    /\ chunk_units = <<>>
    /\ result = <<>>
    /\ err = None
    /\ args = NoArgs
    /\ config_model = None
    /\ output = <<>>
    /\ exit_status = None

NextConc ==
    \E c \in Calls : ConcChunkBegin(c) \/ ConcChunkStep(c) \/ ConcChunkEnd(c)

SpecConc == InitConc /\ [][NextConc]_vars

-----------------------------------------------------------------------------
(* Properties *)

\* chunk has returned; Chunks is the list it returned
HasReturned == result # <<>>
Chunks == result[1]

IsToken == strategy = "TokenBasedChunking"
IsLine == strategy = "LineBasedChunking"
IsParagraph == strategy = "ParagraphBasedChunking"

\* the size of one unit: 1 for a token, the word count of a line or paragraph
UnitSize(unit) == IF IsToken THEN 1 ELSE Len(Split(unit))

RECURSIVE SumSizes(_)
SumSizes(us) == IF us = <<>> THEN 0 ELSE UnitSize(Head(us)) + SumSizes(Tail(us))

\* the concatenation of a sequence of sequences
Concat(parts) == Join(<<>>, parts)

\* the input's unit sequence, by strategy
InputUnits ==
    IF IsToken THEN encode(text)
    ELSE IF IsLine THEN SplitLines(text) ELSE SplitSep(text, <<"\n", "\n">>)

\* C1: every returned chunk has size <= target_size, unless it consists of
\* exactly one unit whose own size exceeds target_size (all three strategies,
\* every text, every integer target_size).
C1_SizeWithinTarget ==
    HasReturned =>
        \A k \in 1..Len(Chunks) :
            \/ Chunks[k][2] <= chunk_size
            \/ /\ Len(chunk_units[k]) = 1
               /\ UnitSize(chunk_units[k][1]) > chunk_size

\* C2: the returned list is empty if and only if the input text is the empty
\* string (all three strategies, every target_size).
C2_EmptyIffEmptyText == HasReturned => (Chunks = <<>> <=> text = <<>>)

\* C3: in token mode with target_size <= 0 an n-token input yields exactly n
\* chunks, each holding one token and reporting size 1, and nothing else.
C3_OneTokenPerChunk ==
    (HasReturned /\ IsToken /\ chunk_size <= 0) =>
        /\ Len(Chunks) = Len(encode(text))
        /\ \A k \in 1..Len(Chunks) :
               Chunks[k][2] = 1 /\ Len(encode(Chunks[k][1])) = 1

\* C4: in token mode the re-encoded chunk texts, concatenated in order, equal
\* encode(text): no token is dropped, duplicated or reordered.
C4_TokenRoundTrip ==
    (HasReturned /\ IsToken) =>
        Concat([k \in 1..Len(Chunks) |-> encode(Chunks[k][1])]) = encode(text)

\* C4's case: a token-mode call that closed a chunk in the loop and one at the end
C4_Witness ==
    /\ HasReturned /\ IsToken
    /\ chunk_size >= 1
    /\ Len(Chunks) >= 2
    /\ Len(encode(text)) > chunk_size

LineCaseCall == HasReturned /\ IsLine /\ text = LineCase /\ chunk_size = 3

\* C5 as stated: line mode on "a b c\nd\ne f g h" with target_size 3 returns
\* exactly [("a b c", 3), ("d e f g h", 5)].
C5_LineCaseTwoChunks ==
    LineCaseCall =>
        Chunks = << <<<<"a", " ", "b", " ", "c">>, 3>>,
                    <<<<"d", " ", "e", " ", "f", " ", "g", " ", "h">>, 5>> >>

\* C5 as amended: line mode on "a b c\nd\ne f g h" with target_size 3 returns
\* exactly [("a b c", 3), ("d", 1), ("e f g h", 4)].
C5_LineCaseThreeChunks ==
    LineCaseCall =>
        Chunks = << <<<<"a", " ", "b", " ", "c">>, 3>>,
                    <<<<"d">>, 1>>,
                    <<<<"e", " ", "f", " ", "g", " ", "h">>, 4>> >>

\* C5's case: the line-mode call on the literal input has returned
C5_Witness == LineCaseCall /\ Len(Chunks) > 0

ParagraphCaseCall ==
    HasReturned /\ IsParagraph /\ text = ParagraphCase /\ chunk_size = 2

\* C6: paragraph mode on "alpha beta\n\ngamma\n\ndelta epsilon zeta" with
\* target_size 2 returns exactly
\* [("alpha beta", 2), ("gamma", 1), ("delta epsilon zeta", 3)].
C6_ParagraphCaseThreeChunks ==
    ParagraphCaseCall =>
        Chunks = << <<<<"a", "l", "p", "h", "a", " ", "b", "e", "t", "a">>, 2>>,
                    <<<<"g", "a", "m", "m", "a">>, 1>>,
                    <<<<"d", "e", "l", "t", "a", " ", "e", "p", "s",
                      "i", "l", "o", "n", " ", "z", "e", "t", "a">>, 3>> >>

\* C6's case: the paragraph-mode call on the literal input has returned
C6_Witness == ParagraphCaseCall /\ Len(Chunks) > 0

\* the factory has been called with "token" and no tokenizer, or with a name
\* that is not one of token, line, paragraph
FactoryMisuse ==
    /\ caller = "api"
    /\ pc # "get_chunking_strategy"
    /\ \/ strategy_name = "token" /\ encoder = None
       \/ strategy_name \notin StrategyChoices

\* C7 as stated: get_chunking_strategy fails with ConfigurationError for "token"
\* without a tokenizer and for a name outside token, line, paragraph, and
\* returns no strategy instance.
C7_FactoryConfigurationError ==
    FactoryMisuse =>
        pc = "raised" /\ err = "ConfigurationError" /\ strategy = None

\* C7 as amended: in both cases get_chunking_strategy fails with ValueError,
\* and returns no strategy instance.
C7_FactoryValueError ==
    FactoryMisuse => pc = "raised" /\ err = "ValueError" /\ strategy = None

\* C7's case: the factory was called with "token" and no tokenizer
C7_Witness ==
    FactoryMisuse /\ strategy_name = "token" /\ encoder = None /\ pc = "raised"

\* the joiner of the strategy: a single space, or the blank line
Joiner == IF IsLine THEN <<" ">> ELSE <<"\n", "\n">>

\* C8: in line and paragraph modes the units of the returned chunks, chunk by
\* chunk in order, are exactly the input's units; every chunk text is its units
\* joined with the strategy's joiner, and the chunk texts joined with it equal
\* the input's units joined with it (in paragraph mode, the input text).
C8_UnitsPreserved ==
    (HasReturned /\ (IsLine \/ IsParagraph)) =>
        /\ Concat(chunk_units) = InputUnits
        /\ Len(chunk_units) = Len(Chunks)
        /\ \A k \in 1..Len(Chunks) : Chunks[k][1] = Join(Joiner, chunk_units[k])
        /\ Join(Joiner, [k \in 1..Len(Chunks) |-> Chunks[k][1]])
               = Join(Joiner, InputUnits)
        /\ IsParagraph =>
               Join(Joiner, [k \in 1..Len(Chunks) |-> Chunks[k][1]]) = text

\* C8's case: a paragraph-mode call that returned several chunks, one of them
\* joining several paragraphs
C8_Witness ==
    /\ HasReturned /\ IsParagraph
    /\ Len(Chunks) >= 2
    /\ \E k \in 1..Len(chunk_units) : Len(chunk_units[k]) >= 2

\* C9: the size reported with every chunk is the measured size of its content:
\* in token mode the number of tokens it holds, in line and paragraph modes the
\* number of whitespace-separated words of its text, which is the sum of the
\* word counts of the units joined into it.
C9_SizeIsMeasured ==
    HasReturned =>
        \A k \in 1..Len(Chunks) :
            /\ Chunks[k][2] = SumSizes(chunk_units[k])
            /\ Chunks[k][2] = IF IsToken THEN Len(encode(Chunks[k][1]))
                              ELSE Len(Split(Chunks[k][1]))

\* C9's case: a line-mode chunk of several lines and several words
C9_Witness ==
    /\ HasReturned /\ IsLine
    /\ \E k \in 1..Len(Chunks) : Len(chunk_units[k]) >= 2 /\ Chunks[k][2] >= 2

\* the run of main has failed on a configuration error: an unknown strategy
\* name, a missing tokenizer for token mode, or an unrecognized model
ConfigurationFailure ==
    /\ caller = "main"
    /\ pc = "exit"
    /\ \/ err = "SystemExit" /\ args.strategy \notin StrategyChoices
       \/ err = "ValueError"
       \/ err = "KeyError"

\* no chunk call was entered, nothing was chunked and nothing was written
NothingDone ==
    /\ idx = 0
    /\ units = <<>>
    /\ chunks = <<>>
    /\ result = <<>>
    /\ output = <<>>

\* C10 as stated: a run of main that fails on a configuration error has not
\* invoked chunk_text, has produced no chunk and written no output, and ends
\* with exit status 1.
C10_ConfigurationFailureExitsOne ==
    ConfigurationFailure => NothingDone /\ exit_status = 1

\* C10 as amended: such a run has not invoked chunk_text, has produced no chunk
\* and written no output; it ends with exit status 1 when the error is raised
\* in main's try block (an unrecognized model), and with exit status 2 when
\* parse_arguments rejects an unknown strategy name.
C10_ConfigurationFailureAllOrNothing ==
    ConfigurationFailure =>
        /\ NothingDone
        /\ exit_status = IF err = "SystemExit" THEN 2 ELSE 1

\* C10's case: a token-mode run that failed on an unrecognized model
C10_Witness ==
    /\ ConfigurationFailure
    /\ err = "KeyError"
    /\ args.strategy = "token"
    /\ text # <<>>

\* chunk is in its loop or has returned
InChunk == pc \in {"loop", "returned", "main_output"}

\* chunks closed once m tokens were consumed with target size t >= 1
ClosedAfter(m, t) == IF m = 0 THEN 0 ELSE (m + t - 1) \div t - 1

\* C12: in token mode with target_size >= 1 a chunk is closed exactly when the
\* buffer holds target_size tokens and another token is pending: every closed
\* chunk holds exactly target_size tokens, and of an n-token input every
\* returned chunk but the last holds target_size tokens, the last holds
\* between 1 and target_size, and there are ceil(n / target_size) chunks.
C12_TokenChunksFull ==
    (InChunk /\ IsToken /\ chunk_size >= 1) =>
        /\ pc = "loop" =>
               /\ Len(chunks) = ClosedAfter(idx - 1, chunk_size)
               /\ Len(current_chunk) = idx - 1 - Len(chunks) * chunk_size
               /\ current_chunk_size = Len(current_chunk)
               /\ \A k \in 1..Len(chunks) :
                      chunks[k][2] = chunk_size
                          /\ Len(encode(chunks[k][1])) = chunk_size
        /\ HasReturned =>
               LET n == Len(encode(text))
               IN  /\ Len(Chunks) = (n + chunk_size - 1) \div chunk_size
                   /\ \A k \in 1..Len(Chunks) :
                          /\ Len(encode(Chunks[k][1])) = Chunks[k][2]
                          /\ k < Len(Chunks) => Chunks[k][2] = chunk_size
                          /\ k = Len(Chunks) => Chunks[k][2] \in 1..chunk_size

\* C12's case: a token-mode call that returned full chunks and a shorter last one
C12_Witness ==
    /\ HasReturned /\ IsToken
    /\ chunk_size >= 2
    /\ Len(Chunks) >= 3
    /\ Chunks[Len(Chunks)][2] < chunk_size

\* C13: in line and paragraph modes a chunk is closed before a unit only when
\* the accumulation is non-empty and running_total + unit_size > target_size:
\* every chunk contains at least one unit, and the size of a chunk plus the
\* size of the first unit after it (of the next chunk, or of the accumulation)
\* exceeds target_size.
C13_GreedyMaximal ==
    (InChunk /\ (IsLine \/ IsParagraph)) =>
        /\ Len(chunk_units) = Len(chunks)
        /\ \A k \in 1..Len(chunks) :
               /\ Len(chunk_units[k]) >= 1
               /\ chunks[k][2] = SumSizes(chunk_units[k])
               /\ k < Len(chunks) =>
                      chunks[k][2] + UnitSize(chunk_units[k + 1][1]) > chunk_size
        /\ (pc = "loop" /\ chunks # <<>>) =>
               /\ current_chunk # <<>>
               /\ chunks[Len(chunks)][2] + UnitSize(current_chunk[1]) > chunk_size
        /\ HasReturned => Chunks = chunks

\* C13's case: a line-mode call that returned several chunks, one of them
\* joining several lines
C13_Witness ==
    /\ HasReturned /\ IsLine
    /\ chunk_size >= 2
    /\ Len(Chunks) >= 2
    /\ \E k \in 1..Len(chunk_units) : Len(chunk_units[k]) >= 2

RECURSIVE RunFrom(_, _, _)
RunFrom(class, f, target) ==
    IF f.idx > Len(f.units) THEN FrameReturn(class, f)
    ELSE RunFrom(class, FrameIterate(class, f, target), target)

\* what chunk(txt, target) of a class returns when the call runs alone, from
\* its prologue to its return with no other call in between
ChunkAlone(class, txt, target) == RunFrom(class, FrameEnter(class, txt), target).result[1]

\* every call that has returned returned what it returns when run alone
ReturnsAsAlone ==
    \A c \in Calls :
        frames[c].pc = "returned" =>
            frames[c].result[1]
                = ChunkAlone(ClassOf(c), calls[c].text, calls[c].chunk_size)

\* C11: chunk calls share no mutable state: with the steps of two or more
\* calls, on the same or on different strategy instances, interleaved in any
\* order, every call returns exactly what it returns when run alone, and no
\* step modifies a strategy instance, a Chunker or a call's input text.
C11_CallsIndependent ==
    /\ []ReturnsAsAlone
    /\ [][instances' = instances /\ chunkers' = chunkers /\ calls' = calls]_vars

\* C11's case: two calls on the same instance with different arguments, one
\* returned with several chunks while the other is in the middle of its loop
C11_Witness ==
    \E c, d \in Calls :
        /\ c # d
        /\ SelfOf(c) = SelfOf(d)
        /\ calls[c] # calls[d]
        /\ frames[c].pc = "returned"
        /\ Len(frames[c].result[1]) >= 2
        /\ frames[d].pc = "loop"
        /\ frames[d].idx > 1
        /\ frames[d].idx <= Len(frames[d].units)
        /\ frames[d].current_chunk # <<>>

=============================================================================
